---- MODULE Spec2Model ----
(***************************************************************************)
(* Model of xbel_static.py: build_site parses XBEL files into a Folder     *)
(* tree, assigns a unique slug (output file name) to every folder and      *)
(* writes one rendered page per folder.                                    *)
(*                                                                         *)
(* Strings are sequences of one-character strings, so that slugify,        *)
(* escape and the file-name formatting are computed character by           *)
(* character.  Python's None is the value None below.                      *)
(***************************************************************************)
EXTENDS Integers, Sequences, FiniteSets, TLC

\* ------------------------------------------------------------------ bounds
MaxNodes == 3
MaxDepth == 3
MaxClock == 2

\* ----------------------------------------------------------------- strings
None == <<"None">>

Falsy(s) == s = None \/ s = <<>>

RECURSIVE Flatten(_)
Flatten(ss) == IF ss = <<>> THEN <<>> ELSE Head(ss) \o Flatten(Tail(ss))

Upper ==
  <<"A", "B", "C", "D", "E", "F", "G", "H", "I", "J", "K", "L", "M",
    "N", "O", "P", "Q", "R", "S", "T", "U", "V", "W", "X", "Y", "Z">>

LowerOf ==
  <<"a", "b", "c", "d", "e", "f", "g", "h", "i", "j", "k", "l", "m",
    "n", "o", "p", "q", "r", "s", "t", "u", "v", "w", "x", "y", "z">>

\* str.lower() on one character
LowerChar(c) ==
  IF \E k \in 1..Len(Upper) : Upper[k] = c
    THEN LowerOf[CHOOSE k \in 1..Len(Upper) : Upper[k] = c]
    ELSE c

Lower(s) == [k \in 1..Len(s) |-> LowerChar(s[k])]

\* the character class [a-z0-9] of _slugify's pattern
SlugChars == {"a", "b", "c", "d", "e", "f", "g", "h", "i", "j", "k", "l", "m",
              "n", "o", "p", "q", "r", "s", "t", "u", "v", "w", "x", "y", "z",
              "0", "1", "2", "3", "4", "5", "6", "7", "8", "9"}

\* re.sub(r"[^a-z0-9]+", "-", s): every maximal run of other characters
\* becomes one "-"
RECURSIVE SubRuns(_, _)
SubRuns(s, inRun) ==
  IF s = <<>> THEN <<>>
  ELSE IF Head(s) \in SlugChars THEN <<Head(s)>> \o SubRuns(Tail(s), FALSE)
  ELSE IF inRun THEN SubRuns(Tail(s), TRUE)
  ELSE <<"-">> \o SubRuns(Tail(s), TRUE)

\* str.strip(chars): drop leading and trailing characters of the set
RECURSIVE LStrip(_, _)
LStrip(s, chars) ==
  IF s # <<>> /\ Head(s) \in chars THEN LStrip(Tail(s), chars) ELSE s

RECURSIVE RStrip(_, _)
RStrip(s, chars) ==
  IF s # <<>> /\ s[Len(s)] \in chars
    THEN RStrip(SubSeq(s, 1, Len(s) - 1), chars) ELSE s

Strip(s, chars) == RStrip(LStrip(s, chars), chars)

Whitespace == {" "}

FolderWord == <<"f", "o", "l", "d", "e", "r">>

_slugify(title) ==
  LET slug == Strip(SubRuns(Lower(title), FALSE), {"-"})
  IN IF slug = <<>> THEN FolderWord ELSE slug

Digits == <<"0", "1", "2", "3", "4", "5", "6", "7", "8", "9">>

\* str(n) for n >= 0
RECURSIVE Str(_)
Str(n) == IF n < 10 THEN <<Digits[n + 1]>>
          ELSE Str(n \div 10) \o <<Digits[(n % 10) + 1]>>

DotHtml == <<".", "h", "t", "m", "l">>

IndexHtml == <<"i", "n", "d", "e", "x">> \o DotHtml

\* the candidate tried by _unique_name when its counter has the value k
\* (k = 1 stands for the first candidate, tried before the counter is used)
Candidate(base, k) ==
  IF k = 1 THEN base \o DotHtml ELSE base \o <<"-">> \o Str(k) \o DotHtml

RECURSIVE UniqueFrom(_, _, _)
UniqueFrom(base, used, k) ==
  IF Candidate(base, k) \in used THEN UniqueFrom(base, used, k + 1)
  ELSE Candidate(base, k)

\* _unique_name without its while loop
_unique_name_noloop(base, used) == Candidate(base, 1)

\* _unique_name with its counter starting at 1
_unique_name_from1(base, used) ==
  IF Candidate(base, 1) \in used
    THEN LET k == CHOOSE k \in 1..(Cardinality(used) + 1) :
                    /\ base \o <<"-">> \o Str(k) \o DotHtml \notin used
                    /\ \A j \in 1..(k - 1) :
                         base \o <<"-">> \o Str(j) \o DotHtml \in used
         IN base \o <<"-">> \o Str(k) \o DotHtml
    ELSE Candidate(base, 1)

\* the name _unique_name returns; the caller adds it to used
_unique_name(base, used) == UniqueFrom(base, used, 1)

\* html.escape(s, quote=True)
EscapeChar(c) ==
  CASE c = "&" -> <<"&", "a", "m", "p", ";">>
    [] c = "<" -> <<"&", "l", "t", ";">>
    [] c = ">" -> <<"&", "g", "t", ";">>
    [] c = "\"" -> <<"&", "q", "u", "o", "t", ";">>
    [] c = "'" -> <<"&", "#", "x", "2", "7", ";">>
    [] OTHER -> <<c>>

escape(s) == Flatten([k \in 1..Len(s) |-> EscapeChar(s[k])])


\* str.replace("Z", "+00:00")
RECURSIVE ReplaceZ(_)
ReplaceZ(s) ==
  IF s = <<>> THEN <<>>
  ELSE IF Head(s) = "Z" THEN <<"+", "0", "0", ":", "0", "0">> \o ReplaceZ(Tail(s))
  ELSE <<Head(s)>> \o ReplaceZ(Tail(s))

IsDigit(c) == \E k \in 1..10 : Digits[k] = c

DigitVal(c) == (CHOOSE k \in 1..10 : Digits[k] = c) - 1

\* s[from..from+1] is a two-digit number in lo..hi
TwoDigits(s, from, lo, hi) ==
  /\ Len(s) >= from + 1
  /\ IsDigit(s[from]) /\ IsDigit(s[from + 1])
  /\ LET v == 10 * DigitVal(s[from]) + DigitVal(s[from + 1])
     IN lo <= v /\ v <= hi

IsIsoDate(s) ==
  /\ Len(s) = 10
  /\ \A k \in 1..4 : IsDigit(s[k])
  /\ s[5] = "-" /\ TwoDigits(s, 6, 1, 12)
  /\ s[8] = "-" /\ TwoDigits(s, 9, 1, 31)

IsIsoTime(s) ==
  /\ Len(s) = 8
  /\ TwoDigits(s, 1, 0, 23) /\ s[3] = ":"
  /\ TwoDigits(s, 4, 0, 59) /\ s[6] = ":"
  /\ TwoDigits(s, 7, 0, 59)

IsIsoOffset(s) ==
  /\ Len(s) = 6
  /\ s[1] \in {"+", "-"}
  /\ TwoDigits(s, 2, 0, 23) /\ s[4] = ":" /\ TwoDigits(s, 5, 0, 59)

\* datetime.fromisoformat accepts s: a date, then optionally one separator
\* character and a time, then optionally a UTC offset
FromIsoFormatOk(s) ==
  \/ IsIsoDate(s)
  \/ /\ Len(s) = 19
     /\ IsIsoDate(SubSeq(s, 1, 10)) /\ IsIsoTime(SubSeq(s, 12, 19))
  \/ /\ Len(s) = 25
     /\ IsIsoDate(SubSeq(s, 1, 10)) /\ IsIsoTime(SubSeq(s, 12, 19))
     /\ IsIsoOffset(SubSeq(s, 20, 25))

_format_timestamp(value) ==
  IF Falsy(value) THEN None
  ELSE IF FromIsoFormatOk(ReplaceZ(value)) THEN SubSeq(ReplaceZ(value), 1, 10)
  ELSE value


\* ------------------------------------------------------------------ inputs
\* An XML document is held in document order: one record per element with
\* its nesting depth.  A depth-1 record is one input file: its root element,
\* or the marker of a file that is not well-formed XML.  title and desc are
\* the text of the element's first title/desc child (None when absent).
Elem(d, tg, ti, hr, de, ad, mo) ==
  [depth |-> d, tag |-> tg, title |-> ti, href |-> hr, desc |-> de,
   added |-> ad, modified |-> mo]

Malformed == "#malformed"

\* markup characters only, no letter or digit
Hostile == <<"<", "!", ">", "&", "\"", "'">>

IsoStamp == <<"2", "0", "2", "3", "-", "0", "5", "-", "0", "1", "T",
              "1", "0", ":", "0", "0", ":", "0", "0", "Z">>

Url == <<"u">>

RootTitles == {None, <<"A">>, <<"a", " ", "2">>}

FolderTitles == {<<"A">>}

RootElems ==
  {Elem(1, "xbel", t, None, None, None, None) : t \in RootTitles}
    \cup {Elem(1, Malformed, None, None, None, None, None)}

InnerElems(d) ==
  {Elem(d, "folder", t, None, None, None, None) : t \in FolderTitles}
    \cup {Elem(d, "bookmark", None, h, None, None, None) : h \in {None, Url}}

\* a document sequence is well nested, and a malformed file has no elements
WellNested(doc) ==
  /\ Len(doc) > 0 => doc[1].depth = 1
  /\ \A i \in 1..(Len(doc) - 1) :
       /\ doc[i + 1].depth <= doc[i].depth + 1
       /\ doc[i].tag = Malformed => doc[i + 1].depth = 1

TreeDocs ==
  UNION {
    {doc \in [1..n -> RootElems \cup UNION {InnerElems(d) : d \in 2..MaxDepth}] :
       WellNested(doc)} : n \in 0..MaxNodes}

\* one file holding one bookmark whose every field varies, next to a
\* bookmark without href, two folders and an element of another kind
BookmarkElems ==
  {Elem(2, "bookmark", ti, hr, de, ad, mo) :
     ti \in {None, Hostile}, hr \in {<<>>, Hostile},
     de \in {None, <<" ">>, Hostile},
     ad \in {None, IsoStamp, Hostile}, mo \in {None, IsoStamp, Hostile}}

BookmarkDocs ==
  {<<Elem(1, "xbel", Hostile, None, None, None, None),
     Elem(2, "bookmark", Url, None, Url, IsoStamp, IsoStamp),
     b,
     Elem(2, "folder", Hostile, None, None, None, None),
     Elem(2, "separator", None, None, None, None, None),
     Elem(3, "folder", Url, None, None, None, None),
     Elem(2, "folder", None, None, None, None, None)>> : b \in BookmarkElems}

PageTitle == <<"M", "y">>

Inputs ==
  (TreeDocs \X {PageTitle}) \cup (BookmarkDocs \X {Hostile})

\* path.stem of every input file
Stem == <<"I", "n", "d", "e", "x">>

UntitledFolder == <<"U", "n", "t", "i", "t", "l", "e", "d", " ",
                    "f", "o", "l", "d", "e", "r">>


\* ------------------------------------------------------------------- state
VARIABLES
  elems,       \* the input files' documents (see Elem)
  page_title,  \* the page title given to build_site
  pc,          \* position in build_site, or the exception that ended it
  folders,     \* build_site's list of parsed top-level Folder objects
  heap,        \* the Folder objects: id -> [title, children, slug]
  used,        \* _assign_slugs' set of names in use
  stack,       \* the call stack of walk / _write_folder_pages
  dirExists,   \* whether output_dir exists
  files,       \* the files of output_dir: name -> content
  start,       \* output_dir when the run started: [dirExists, files]
  now,         \* the clock, as last read by render_page
  run,         \* number of the current build_site run
  prev         \* what the previous run left in output_dir

vars == <<elems, page_title, pc, folders, heap, used, stack, dirExists,
          files, start, now, run, prev>>

Empty == <<>>

\* Folder ids: the synthetic root is 0, a parsed folder has the index of
\* its element
RootId == 0

\* xbel_paths: the input files, by the index of their depth-1 record
xbel_paths == SelectSeq([i \in 1..Len(elems) |-> i], LAMBDA i : elems[i].depth = 1)

\* in document doc, element j lies inside element e
InsideIn(doc, j, e) ==
  /\ j > e
  /\ \A k \in (e + 1)..j : doc[k].depth > doc[e].depth

IsChildOf(j, e) == InsideIn(elems, j, e) /\ elems[j].depth = elems[e].depth + 1

\* the child elements of element e, in document order
Kids(e) == SelectSeq([i \in 1..Len(elems) |-> i], LAMBDA j : IsChildOf(j, e))

\* ----------------------------------------------------------------- parsing
_text_or_none(text) ==
  IF text = None THEN None
  ELSE IF Strip(text, Whitespace) = <<>> THEN None
  ELSE Strip(text, Whitespace)

OrElse(a, b) == IF Falsy(a) THEN b ELSE a

Bookmark(ti, hr, de, ad, mo) ==
  [kind |-> "Bookmark", title |-> ti, href |-> hr, desc |-> de,
   added |-> ad, modified |-> mo]

FolderRef(id) == [kind |-> "Folder", id |-> id]

\* _parse_folder without its check of href
ChildItems_nocheck(c) ==
  IF elems[c].tag = "folder" THEN <<FolderRef(c)>>
  ELSE IF elems[c].tag = "bookmark" THEN
    <<Bookmark(OrElse(_text_or_none(elems[c].title), elems[c].href),
               elems[c].href, _text_or_none(elems[c].desc),
               elems[c].added, elems[c].modified)>>
  ELSE <<>>

\* the entry _parse_folder appends to children for child element c
ChildItems(c) ==
  IF elems[c].tag = "folder" THEN <<FolderRef(c)>>
  ELSE IF elems[c].tag = "bookmark" THEN
    IF Falsy(elems[c].href) THEN <<>>
    ELSE <<Bookmark(OrElse(_text_or_none(elems[c].title), elems[c].href),
                    elems[c].href, _text_or_none(elems[c].desc),
                    elems[c].added, elems[c].modified)>>
  ELSE <<>>

RECURSIVE MergeAll(_)
MergeAll(fs) == IF fs = <<>> THEN Empty ELSE Head(fs) @@ MergeAll(Tail(fs))

\* the Folder objects _parse_folder(elem, fallback_title) constructs
RECURSIVE _parse_folder(_, _)
_parse_folder(e, fallback_title) ==
  LET kids == Kids(e)
      sub == SelectSeq(kids, LAMBDA c : elems[c].tag = "folder")
  IN (e :> [title |-> OrElse(_text_or_none(elems[e].title), fallback_title),
            children |-> Flatten([k \in 1..Len(kids) |-> ChildItems(kids[k])]),
            slug |-> None])
       @@ MergeAll([k \in 1..Len(sub) |-> _parse_folder(sub[k], UntitledFolder)])


\* --------------------------------------------------------------- rendering
FolderChildren(f) == SelectSeq(heap[f].children, LAMBDA c : c.kind = "Folder")

BookmarkChildren(f) == SelectSeq(heap[f].children, LAMBDA c : c.kind = "Bookmark")

MetaParts(bookmark) ==
  (IF Falsy(_format_timestamp(bookmark.added)) THEN <<>>
   ELSE <<[label |-> "added", value |-> _format_timestamp(bookmark.added)]>>)
  \o
  (IF Falsy(_format_timestamp(bookmark.modified)) THEN <<>>
   ELSE <<[label |-> "updated", value |-> _format_timestamp(bookmark.modified)]>>)

\* the values _render_bookmark_tile interpolates into its markup
_render_bookmark_tile(bookmark) ==
  [href |-> escape(bookmark.href),
   title |-> escape(bookmark.title),
   desc |-> IF Falsy(bookmark.desc) THEN None ELSE escape(bookmark.desc),
   meta |-> MetaParts(bookmark)]

\* the values _render_subfolder_tile interpolates; its assertion is
\* SlugAsserted
_render_subfolder_tile(c) ==
  [href |-> escape(heap[c.id].slug), title |-> escape(heap[c.id].title)]

SlugAsserted(f) == ~Falsy(heap[f].slug)

\* render_page raises AssertionError unless every linked subfolder has a slug
RenderAsserted(f) ==
  \A k \in 1..Len(FolderChildren(f)) : SlugAsserted(FolderChildren(f)[k].id)

\* " - " stands for the dash between folder title and page title
TitleSep == <<" ", "-", " ">>

\* render_page showing the generation time in the heading as well
render_page_timed(f, title, parent_link, clock) ==
  [title |-> escape(heap[f].title) \o TitleSep \o escape(title),
   h1 |-> escape(heap[f].title) \o Str(clock),
   updated |-> clock,
   parent_nav |-> IF Falsy(parent_link) THEN None ELSE escape(parent_link),
   bookmarks |-> [k \in 1..Len(BookmarkChildren(f)) |->
                    _render_bookmark_tile(BookmarkChildren(f)[k])],
   subfolders |-> [k \in 1..Len(FolderChildren(f)) |->
                     _render_subfolder_tile(FolderChildren(f)[k])]]

\* the values render_page interpolates into the page template
render_page(f, title, parent_link, clock) ==
  [title |-> escape(heap[f].title) \o TitleSep \o escape(title),
   h1 |-> escape(heap[f].title),
   updated |-> clock,
   parent_nav |-> IF Falsy(parent_link) THEN None ELSE escape(parent_link),
   bookmarks |-> [k \in 1..Len(BookmarkChildren(f)) |->
                    _render_bookmark_tile(BookmarkChildren(f)[k])],
   subfolders |-> [k \in 1..Len(FolderChildren(f)) |->
                     _render_subfolder_tile(FolderChildren(f)[k])]]

\* a page left in output_dir by something else than this run
StalePage ==
  [title |-> <<"o", "l", "d">>, h1 |-> <<"o", "l", "d">>, updated |-> 0,
   parent_nav |-> None, bookmarks |-> <<>>, subfolders |-> <<>>]

OldHtml == <<"o", "l", "d">> \o DotHtml

StaleFiles == (IndexHtml :> StalePage) @@ (OldHtml :> StalePage)


\* ----------------------------------------------------------------- actions
Frame(f, parent_link, i) == [f |-> f, parent_link |-> parent_link, i |-> i]

Top == stack[Len(stack)]

Pop == SubSeq(stack, 1, Len(stack) - 1)

\* the stack with the top frame's loop index advanced
Advanced == [stack EXCEPT ![Len(stack)].i = @ + 1]

Init ==
  /\ \E inp \in Inputs : elems = inp[1] /\ page_title = inp[2]
  /\ pc = "parse"
  /\ folders = <<>>
  /\ heap = Empty
  /\ used = {}
  /\ stack = <<>>
  /\ \E stale \in BOOLEAN :
       /\ dirExists = stale
       /\ files = IF stale THEN StaleFiles ELSE Empty
       /\ start = [dirExists |-> stale,
                   files |-> IF stale THEN StaleFiles ELSE Empty]
  /\ now = 1
  /\ run = 1
  /\ prev = Empty

\* build_site going on as soon as one path is parsed
AllParsed_first == Len(folders) >= 1 \/ xbel_paths = <<>>

\* the list comprehension of build_site has parsed every path
AllParsed == Len(folders) = Len(xbel_paths)

\* a handler that removes the output written so far
RaiseParseError_cleanup ==
  /\ pc' = "ParseError"
  /\ files' = Empty
  /\ UNCHANGED <<elems, page_title, folders, heap, used, stack, dirExists,
                 start, now, run, prev>>

\* ET.parse raises ParseError: nothing catches it, build_site ends
RaiseParseError ==
  /\ pc' = "ParseError"
  /\ UNCHANGED <<elems, page_title, folders, heap, used, stack, dirExists,
                 files, start, now, run, prev>>

\* build_site, one iteration of folders = [parse_xbel_file(path) ...]
ParseFile ==
  /\ pc = "parse"
  /\ ~AllParsed
  /\ LET path == xbel_paths[Len(folders) + 1]
     IN IF elems[path].tag = Malformed
          THEN RaiseParseError
          ELSE /\ heap' = heap @@ _parse_folder(path, Stem)
               /\ folders' = Append(folders, path)
               /\ UNCHANGED <<elems, page_title, pc, used, stack, dirExists,
                              files, start, now, run, prev>>

\* build_site constructs the root; _assign_slugs names it and calls walk(root)
AssignRoot ==
  /\ pc = "parse"
  /\ AllParsed
  /\ heap' = heap @@ (RootId :>
       [title |-> page_title,
        children |-> [k \in 1..Len(folders) |-> FolderRef(folders[k])],
        slug |-> IndexHtml])
  /\ used' = {IndexHtml}
  /\ stack' = <<Frame(RootId, None, 1)>>
  /\ pc' = "assign"
  /\ UNCHANGED <<elems, page_title, folders, dirExists, files, start, now,
                 run, prev>>

\* walk without its recursive call
Recurse_skipped(id) == Advanced

\* walk(child): the caller's loop moves on, the callee starts its own
Recurse(id) == Append(Advanced, Frame(id, None, 1))

\* walk: one iteration of its loop over folder.children, or its return
Walk ==
  /\ pc = "assign"
  /\ stack # <<>>
  /\ LET children == heap[Top.f].children
     IN IF Top.i > Len(children)
          THEN /\ stack' = Pop
               /\ UNCHANGED <<heap, used>>
          ELSE LET child == children[Top.i]
               IN IF child.kind = "Folder"
                    THEN LET name == _unique_name(_slugify(heap[child.id].title), used)
                         IN /\ heap' = [heap EXCEPT ![child.id].slug = name]
                            /\ used' = used \cup {name}
                            /\ stack' = Recurse(child.id)
                    ELSE /\ stack' = Advanced
                         /\ UNCHANGED <<heap, used>>
  /\ UNCHANGED <<elems, page_title, pc, folders, dirExists, files, start,
                 now, run, prev>>

\* _assign_slugs has returned; build_site calls _write_folder_pages(root)
StartWrite ==
  /\ pc = "assign"
  /\ stack = <<>>
  /\ stack' = <<Frame(RootId, None, 0)>>
  /\ pc' = "write"
  /\ UNCHANGED <<elems, page_title, folders, heap, used, dirExists, files,
                 start, now, run, prev>>

RaiseAssertionError ==
  /\ pc' = "AssertionError"
  /\ UNCHANGED <<elems, page_title, folders, heap, used, stack, dirExists,
                 files, start, now, run, prev>>

\* _write_folder_pages up to its loop: assert, render, mkdir, write_text
WritePage ==
  /\ pc = "write"
  /\ stack # <<>>
  /\ Top.i = 0
  /\ IF ~SlugAsserted(Top.f) \/ ~RenderAsserted(Top.f)
       THEN RaiseAssertionError
       ELSE \E clock \in now..MaxClock :
              /\ now' = clock
              /\ dirExists' = TRUE
              /\ files' = (heap[Top.f].slug :>
                             render_page(Top.f, page_title, Top.parent_link, clock))
                          @@ files
              /\ stack' = Advanced
              /\ UNCHANGED <<elems, page_title, pc, folders, heap, used,
                             start, run, prev>>

\* _write_folder_pages passing the root's slug down instead of its own
ChildParentLink_root(f) == IndexHtml

\* the parent_link _write_folder_pages(f) passes down to its children
ChildParentLink(f) == heap[f].slug

\* _write_folder_pages: one iteration of its loop over folder.children, or
\* its return (the return of the outermost call ends build_site)
WriteChildren ==
  /\ pc = "write"
  /\ stack # <<>>
  /\ Top.i > 0
  /\ LET children == heap[Top.f].children
     IN IF Top.i > Len(children)
          THEN /\ stack' = Pop
               /\ pc' = IF Len(stack) = 1 THEN "done" ELSE pc
          ELSE /\ pc' = pc
               /\ IF children[Top.i].kind = "Folder"
                    THEN stack' = Append(Advanced,
                           Frame(children[Top.i].id, ChildParentLink(Top.f), 0))
                    ELSE stack' = Advanced
  /\ UNCHANGED <<elems, page_title, folders, heap, used, dirExists, files,
                 start, now, run, prev>>

\* a page without its generation timestamp
Untimed(page) == [page EXCEPT !.updated = 0]

\* the tool is run again on the same input files, title and output_dir
Rerun ==
  /\ pc = "done"
  /\ run = 1
  /\ run' = run + 1
  /\ prev' = [files |-> [n \in DOMAIN files |-> Untimed(files[n])],
              slugs |-> [f \in DOMAIN heap |-> heap[f].slug]]
  /\ start' = [dirExists |-> dirExists, files |-> files]
  /\ pc' = "parse"
  /\ folders' = <<>>
  /\ heap' = Empty
  /\ used' = {}
  /\ stack' = <<>>
  /\ UNCHANGED <<elems, page_title, dirExists, files, now>>

\* one run of build_site
Next ==
  \/ ParseFile
  \/ AssignRoot
  \/ Walk
  \/ StartWrite
  \/ WritePage
  \/ WriteChildren

Spec == Init /\ [][Next]_vars

\* two runs of build_site, one after the other
NextTwice ==
  \/ ParseFile
  \/ AssignRoot
  \/ Walk
  \/ StartWrite
  \/ WritePage
  \/ WriteChildren
  \/ Rerun

SpecTwice == Init /\ [][NextTwice]_vars


\* ------------------------------------------------------------------ claims
Folders == DOMAIN heap

\* _assign_slugs(root) has returned
SlugsAssigned == (pc = "assign" /\ stack = <<>>) \/ pc \in {"write", "done"}

\* the folders below and including f, parent before children, children in
\* source order
RECURSIVE PreOrder(_)
PreOrder(f) ==
  <<f>> \o Flatten([k \in 1..Len(FolderChildren(f)) |->
                      PreOrder(FolderChildren(f)[k].id)])

PositionIn(seq, x) == CHOOSE k \in 1..Len(seq) : seq[k] = x

\* the folder whose children hold f
ParentOf(f) ==
  CHOOSE g \in Folders :
    \E k \in 1..Len(heap[g].children) : heap[g].children[k] = FolderRef(f)

\* C1: after _assign_slugs(root) the slugs of all folders of the tree are
\* pairwise distinct and the root's slug is exactly "index.html"
C1_SlugsDistinct ==
  SlugsAssigned =>
    /\ heap[RootId].slug = IndexHtml
    /\ \A f \in Folders : ~Falsy(heap[f].slug)
    /\ \A f, g \in Folders : f # g => heap[f].slug # heap[g].slug

\* two folders with the same title, both slugifying to "index", are named
C1_Witness ==
  /\ SlugsAssigned
  /\ \E f, g \in Folders \ {RootId} :
       /\ f # g
       /\ heap[f].title = heap[g].title
       /\ _slugify(heap[f].title) = <<"i", "n", "d", "e", "x">>

\* C8: slugs are assigned in pre-order; a non-root folder with base b gets
\* b.html if no folder earlier in pre-order (the root included) has it,
\* otherwise b-k.html for the smallest k >= 2 not yet used; a title without
\* alphanumeric character has base "folder", a title slugifying to "index"
\* gets index-2.html when it is the first such folder
C8_PreOrderSlugs ==
  (RootId \in Folders) =>
    LET order == PreOrder(RootId)
        named == {f \in Folders : heap[f].slug # None}
        earlier(f) == {heap[order[k]].slug : k \in 1..(PositionIn(order, f) - 1)}
        base(f) == _slugify(heap[f].title)
    IN /\ \A f \in named : \A k \in 1..PositionIn(order, f) : order[k] \in named
       /\ \A f \in named \ {RootId} :
            \E k \in 1..Len(order) :
              /\ heap[f].slug =
                   IF k = 1 THEN base(f) \o DotHtml
                   ELSE base(f) \o <<"-">> \o Str(k) \o DotHtml
              /\ base(f) \o DotHtml \notin earlier(f) <=> k = 1
              /\ \A j \in 2..(k - 1) :
                   base(f) \o <<"-">> \o Str(j) \o DotHtml \in earlier(f)
       /\ \A f \in named \ {RootId} :
            /\ (\A k \in 1..Len(heap[f].title) :
                  LowerChar(heap[f].title[k]) \notin SlugChars)
                 => SubSeq(heap[f].slug, 1, 6) = FolderWord
            /\ (heap[f].title = Stem /\ PositionIn(order, f) = 2)
                 => heap[f].slug = <<"i", "n", "d", "e", "x", "-", "2">> \o DotHtml

\* "a 2" took a-2.html, so the second folder titled "A" is named a-3.html;
\* or "A", "A" took a.html and a-2.html, so "a 2" is named a-2-2.html
C8_Witness ==
  /\ SlugsAssigned
  /\ \E f \in Folders :
       \/ /\ heap[f].title = <<"A">>
          /\ heap[f].slug = <<"a", "-", "3">> \o DotHtml
       \/ /\ heap[f].title = <<"a", " ", "2">>
          /\ heap[f].slug = <<"a", "-", "2", "-", "2">> \o DotHtml


\* the link build_site passes as parent_link when it writes f's page
ParentLink(f) == IF f = RootId THEN None ELSE heap[ParentOf(f)].slug

\* in document doc, element e stands for a folder: it is a file's root
\* element or a folder element directly inside such an element
RECURSIVE FolderIn(_, _)
FolderIn(doc, e) ==
  IF doc[e].depth = 1 THEN doc[e].tag # Malformed
  ELSE /\ doc[e].tag = "folder"
       /\ \E p \in 1..(e - 1) :
            /\ InsideIn(doc, e, p) /\ doc[e].depth = doc[p].depth + 1
            /\ FolderIn(doc, p)

IsFolderElem(e) == FolderIn(elems, e)

FolderElems == {e \in 1..Len(elems) : IsFolderElem(e)}

BookmarkCount ==
  Cardinality({<<f, k>> \in Folders \X (1..Len(elems)) :
                 k <= Len(heap[f].children)
                 /\ heap[f].children[k].kind = "Bookmark"})

\* C3: a successful run into an empty output directory leaves exactly one
\* file per folder (the synthetic root included), named by the folder's slug
\* and holding that folder's page, and no file for any bookmark
C3_OneFilePerFolder ==
  (pc = "done" /\ start.files = Empty) =>
    /\ DOMAIN files = {heap[f].slug : f \in Folders}
    /\ Cardinality(DOMAIN files) = Cardinality(Folders)
    /\ Cardinality(Folders) = 1 + Cardinality(FolderElems)
    /\ \A f \in Folders :
         files[heap[f].slug] =
           render_page(f, page_title, ParentLink(f), files[heap[f].slug].updated)

\* several folders, two of them with the same base name, and a bookmark
C3_Witness ==
  /\ pc = "done" /\ start.files = Empty
  /\ Cardinality(Folders) >= 3
  /\ BookmarkCount >= 1
  /\ \E f, g \in Folders \ {RootId} :
       f # g /\ _slugify(heap[f].title) = _slugify(heap[g].title)

\* C9: in the written site the root page has no back link, every other
\* page's back link is its parent's slug, every page has one subfolder
\* entry per Folder child, in source order, whose target is that child's
\* slug, and every folder link names a page written in the same run
C9_Links ==
  pc = "done" =>
    \A f \in Folders :
      LET page == files[heap[f].slug]
          subs == FolderChildren(f)
      IN /\ f = RootId => page.parent_nav = None
         /\ f # RootId =>
              /\ page.parent_nav = heap[ParentOf(f)].slug
              /\ page.parent_nav \in DOMAIN files
              /\ files[page.parent_nav].h1 = escape(heap[ParentOf(f)].title)
         /\ Len(page.subfolders) = Len(subs)
         /\ \A k \in 1..Len(subs) :
              /\ page.subfolders[k].href = heap[subs[k].id].slug
              /\ page.subfolders[k].href \in DOMAIN files
              /\ files[page.subfolders[k].href].h1 = escape(heap[subs[k].id].title)

\* a folder two levels below the root, whose parent is not the root
C9_Witness ==
  /\ pc = "done"
  /\ \E f \in Folders \ {RootId} :
       /\ ParentOf(f) # RootId
       /\ files[heap[f].slug].parent_nav = heap[ParentOf(f)].slug

SomeMalformed == \E k \in 1..Len(xbel_paths) : elems[xbel_paths[k]].tag = Malformed

\* C5: when an input file is not well-formed XML the parse error ends the
\* run (nothing catches it, no later step runs) and every file already in
\* the output directory is left as it was: no cleanup, no rollback
C5_ParseErrorAborts ==
  /\ SomeMalformed => pc \in {"parse", "ParseError"}
  /\ pc = "ParseError" =>
       /\ ~ENABLED Next
       /\ \A n \in DOMAIN start.files :
            n \in DOMAIN files /\ files[n] = start.files[n]

\* the second or a later file is malformed and the output directory holds
\* files written earlier
C5_Witness ==
  /\ pc = "ParseError"
  /\ Len(folders) >= 1
  /\ Len(xbel_paths) >= 2
  /\ DOMAIN start.files # {}
  /\ files = start.files

\* C10: build_site parses every input file before it assigns a slug,
\* creates the output directory or writes a page; when a file fails to
\* parse, no output file is created or modified and the directory is not
\* created
C10_ParseBeforeOutput ==
  /\ pc \in {"assign", "write", "done"} => Len(folders) = Len(xbel_paths)
  /\ pc \in {"parse", "ParseError"} =>
       /\ \A f \in Folders : heap[f].slug = None
       /\ used = {}
       /\ dirExists = start.dirExists
       /\ files = start.files

\* a file other than the first is malformed, and the output directory,
\* absent before, is still absent
C10_Witness ==
  /\ pc = "ParseError"
  /\ Len(folders) >= 1
  /\ ~start.dirExists /\ ~dirExists
  /\ files = Empty

\* C7: a second run on the same input files and title leaves the same file
\* names, the same slug for every folder and, but for the generation
\* timestamp, the same content in every file
C7_Deterministic ==
  (run > 1 /\ pc = "done") =>
    /\ DOMAIN files = DOMAIN prev.files
    /\ [f \in Folders |-> heap[f].slug] = prev.slugs
    /\ \A n \in DOMAIN files : Untimed(files[n]) = prev.files[n]

\* the second run has written its pages at a later time than the first
C7_Witness ==
  /\ run > 1 /\ pc = "done"
  /\ Cardinality(Folders) >= 3
  /\ \E n \in DOMAIN files : files[n].updated > 1


\* a bookmark element without (or with an empty) href attribute
Hrefless(doc, e) == doc[e].tag = "bookmark" /\ Falsy(doc[e].href)

\* the positions of doc that remain when every href-less bookmark element
\* is removed with all it contains
Kept(doc) ==
  SelectSeq([i \in 1..Len(doc) |-> i],
            LAMBDA j : /\ ~Hrefless(doc, j)
                       /\ ~\E a \in 1..(j - 1) : Hrefless(doc, a) /\ InsideIn(doc, j, a))

WithoutHrefless(doc) == [k \in 1..Len(Kept(doc)) |-> doc[Kept(doc)[k]]]

\* the titles of the folders of doc, in document order
TitlesIn(doc) ==
  LET es == SelectSeq([i \in 1..Len(doc) |-> i], LAMBDA e : FolderIn(doc, e))
  IN [k \in 1..Len(es) |->
        OrElse(_text_or_none(doc[es[k]].title),
               IF doc[es[k]].depth = 1 THEN Stem ELSE UntitledFolder)]

\* the names given to folders with these titles, one after the other
RECURSIVE NamesFor(_, _)
NamesFor(titles, taken) ==
  IF titles = <<>> THEN <<>>
  ELSE LET name == _unique_name(_slugify(Head(titles)), taken)
       IN <<name>> \o NamesFor(Tail(titles), taken \cup {name})

\* the kept bookmark children of the element of folder f
HrefBookmarks(f) ==
  SelectSeq(Kids(f), LAMBDA c : elems[c].tag = "bookmark" /\ ~Falsy(elems[c].href))

\* C6: a bookmark element without href is dropped: it adds no child to its
\* folder and no entry to any page, raises no error, and every folder gets
\* the slug it gets for the same input without that element
C6_HreflessDropped ==
  /\ \A f \in Folders \ {RootId} :
       /\ \A k \in 1..Len(heap[f].children) :
            heap[f].children[k].kind = "Bookmark"
              => ~Falsy(heap[f].children[k].href)
       /\ Len(BookmarkChildren(f)) = Len(HrefBookmarks(f))
       /\ (pc = "done" /\ ~Falsy(heap[f].slug))
            => Len(files[heap[f].slug].bookmarks) = Len(HrefBookmarks(f))
  /\ ~SomeMalformed => pc \notin {"ParseError", "AssertionError"}
  /\ SlugsAssigned =>
       [k \in 1..(Len(PreOrder(RootId)) - 1) |-> heap[PreOrder(RootId)[k + 1]].slug]
         = NamesFor(TitlesIn(WithoutHrefless(elems)), {IndexHtml})

\* a folder holds a bookmark without href followed by a subfolder, and the
\* site is written
C6_Witness ==
  /\ pc = "done"
  /\ \E f \in Folders \ {RootId} :
       \E b, c \in 1..Len(elems) :
         /\ IsChildOf(b, f) /\ IsChildOf(c, f) /\ b < c
         /\ Hrefless(elems, b)
         /\ c \in Folders

Entities == {EscapeChar(c) : c \in {"&", "<", ">", "\"", "'"}}

\* s holds no markup-significant character other than as an entity
HtmlSafe(s) ==
  \A k \in 1..Len(s) :
    /\ s[k] \notin {"<", ">", "\"", "'"}
    /\ s[k] = "&" =>
         \E ent \in Entities :
           k + Len(ent) - 1 <= Len(s) /\ SubSeq(s, k, k + Len(ent) - 1) = ent

PageSafe(page) ==
  /\ HtmlSafe(page.title) /\ HtmlSafe(page.h1) /\ HtmlSafe(page.parent_nav)
  /\ \A k \in 1..Len(page.bookmarks) :
       /\ HtmlSafe(page.bookmarks[k].href)
       /\ HtmlSafe(page.bookmarks[k].title)
       /\ HtmlSafe(page.bookmarks[k].desc)
       /\ \A j \in 1..Len(page.bookmarks[k].meta) :
            HtmlSafe(page.bookmarks[k].meta[j].value)
  /\ \A k \in 1..Len(page.subfolders) :
       /\ HtmlSafe(page.subfolders[k].href)
       /\ HtmlSafe(page.subfolders[k].title)

\* C2: every string of the input (titles, href, desc, added and modified,
\* also when shown raw) reaches a written page only with the characters
\* < > & " ' escaped
C2_AllEscaped == \A n \in DOMAIN files : PageSafe(files[n])

====
